---- MODULE Spec2Model ----
(***************************************************************************)
(* Model of the voidui CLI's version reconciliation core: the lock file,   *)
(* checksum drift detection, the three-way merge engine and the add /      *)
(* update / diff commands that drive them.                                 *)
(*                                                                         *)
(* A file content is the sequence of its lines (content.split("\n")); a    *)
(* line is a record [kind, text, ver, cr]:                                 *)
(*   kind = "text"   : the line is `text`                                  *)
(*   kind = "ours"   : the line is "<<<<<<< " + label                      *)
(*   kind = "sep"    : the line is "======="                               *)
(*   kind = "theirs" : the line is ">>>>>>> " + label                      *)
(* where label is `text` followed by the version `ver` when ver > 0        *)
(* (the update command's theirs label is "v" + latestVersion), and cr      *)
(* says that the line ends with a carriage return.                         *)
(***************************************************************************)
EXTENDS Integers, Sequences, FiniteSets, TLC

\* ------------------------------------------------------------------ bounds

\* Longest base / ours / theirs input of the merge specification, in lines.
MaxLines == 3

\* ------------------------------------------------------------------- lines

Txt(s) == [kind |-> "text", text |-> s, ver |-> 0, cr |-> FALSE]

TxtCR(s) == [kind |-> "text", text |-> s, ver |-> 0, cr |-> TRUE]

EmptyLine == Txt("")

Min2(x, y) == IF x < y THEN x ELSE y

Max2(x, y) == IF x > y THEN x ELSE y

\* Array.prototype.slice(start, end) on a sequence, 0-based, end exclusive,
\* negative offsets counted from the end.
Slice(seq, start, end) ==
  LET n == Len(seq)
      s == IF start < 0 THEN Max2(n + start, 0) ELSE Min2(start, n)
      e == IF end < 0 THEN Max2(n + end, 0) ELSE Min2(end, n)
  IN IF e <= s THEN << >> ELSE SubSeq(seq, s + 1, e)

\* content.split("\n").join("\n") round trip: an empty list of lines joins
\* to the empty string, which is one empty line.
JoinLines(lines) == IF lines = << >> THEN << EmptyLine >> ELSE lines

\* --------------------------------------------------- diff3Merge (node-diff3)

\* LCS keeps an array of candidates; a candidate is the chain of matched
\* index pairs <<i, j>> (1-based), oldest first. The empty chain is
\* NULLRESULT, whose buffer2index is below every index.
CandJ(cand) == IF cand = << >> THEN 0 ELSE cand[Len(cand)][2]

\* equivalenceClasses[item]: the ascending indices of item in buffer2.
RECURSIVE EquivalenceClass(_, _, _)
EquivalenceClass(buffer2, item, j) ==
  IF j > Len(buffer2) THEN << >>
  ELSE IF buffer2[j] = item
       THEN << j >> \o EquivalenceClass(buffer2, item, j + 1)
       ELSE EquivalenceClass(buffer2, item, j + 1)

\* The scan `for (s = r; s < candidates.length; s++)`: the first s >= r with
\* candidates[s].buffer2index < j and the next candidate (if any) beyond j;
\* Len(cands) + 1 when the scan runs off the end.
RECURSIVE FindS(_, _, _)
FindS(cands, s, j) ==
  IF s > Len(cands) THEN s
  ELSE IF CandJ(cands[s]) < j /\ (s = Len(cands) \/ CandJ(cands[s + 1]) > j)
       THEN s
       ELSE FindS(cands, s + 1, j)

\* candidates[r] = c, pushing when r is one past the end.
SetCand(cands, r, c) ==
  IF r = Len(cands) + 1 THEN Append(cands, c) ELSE [cands EXCEPT ![r] = c]

\* The loop over buffer2indices for one item buffer1[i]; LcsStep is the loop
\* body once the scan has stopped at s.
RECURSIVE LcsInner(_, _, _, _, _, _)
RECURSIVE LcsStep(_, _, _, _, _, _, _)
LcsInner(cands, r, c, js, jx, i) ==
  IF jx > Len(js) THEN [cands |-> cands, r |-> r, c |-> c]
  ELSE LcsStep(cands, r, c, js, jx, i, FindS(cands, r, js[jx]))

LcsStep(cands, r, c, js, jx, i, s) ==
  IF s > Len(cands) THEN LcsInner(cands, r, c, js, jx + 1, i)
  ELSE IF s = Len(SetCand(cands, r, c))
       THEN [cands |-> SetCand(cands, r, c), r |-> s + 1,
             c |-> Append(cands[s], << i, js[jx] >>)]
       ELSE LcsInner(SetCand(cands, r, c), s + 1,
                     Append(cands[s], << i, js[jx] >>), js, jx + 1, i)

\* `candidates[r] = c` after the inner loop.
LcsCommit(st) == SetCand(st.cands, st.r, st.c)

RECURSIVE LcsOuter(_, _, _, _)
LcsOuter(cands, buffer1, buffer2, i) ==
  IF i > Len(buffer1) THEN cands
  ELSE LcsOuter(LcsCommit(LcsInner(cands, 1, cands[1],
                                   EquivalenceClass(buffer2, buffer1[i], 1), 1, i)),
                buffer1, buffer2, i + 1)

\* candidates[candidates.length - 1]
LastCandidate(cands) == cands[Len(cands)]

\* The longest common subsequence the library picks, as matched pairs.
LCS(buffer1, buffer2) ==
  LastCandidate(LcsOuter(<< << >> >>, buffer1, buffer2, 1))

\* The stretch between two consecutive matches pts[k] and pts[k + 1].
\* Offsets are 0-based as in the library.
Gap(pts, k) ==
  [start1 |-> pts[k][1], len1 |-> pts[k + 1][1] - pts[k][1] - 1,
   start2 |-> pts[k][2], len2 |-> pts[k + 1][2] - pts[k][2] - 1]

GapIsHunk(g) == g.len1 # 0 \/ g.len2 # 0

RECURSIVE GapHunks(_, _)
GapHunks(pts, k) ==
  IF k >= Len(pts) THEN << >>
  ELSE SelectSeq(<< Gap(pts, k) >>, GapIsHunk) \o GapHunks(pts, k + 1)

\* diffIndices: one hunk per gap between consecutive matches (and before the
\* first and after the last) where either buffer has unmatched items.
DiffIndices(buffer1, buffer2) ==
  GapHunks(<< << 0, 0 >> >> \o LCS(buffer1, buffer2)
             \o << << Len(buffer1) + 1, Len(buffer2) + 1 >> >>, 1)

\* addHunk
Hunk(h, ab) == [ab |-> ab, oStart |-> h.start1, oLength |-> h.len1,
                abStart |-> h.start2, abLength |-> h.len2]

TagHunks(d, ab) == [k \in 1..Len(d) |-> Hunk(d[k], ab)]

HunksOf(o, side, ab) == TagHunks(DiffIndices(o, side), ab)

\* hunks.sort((x, y) => x.oStart - y.oStart): a stable sort of the a hunks
\* followed by the b hunks, each already ascending.
RECURSIVE SortHunks(_, _)
SortHunks(ha, hb) ==
  IF ha = << >> THEN hb
  ELSE IF hb = << >> THEN ha
  ELSE IF ha[1].oStart <= hb[1].oStart
       THEN << ha[1] >> \o SortHunks(Tail(ha), hb)
       ELSE << hb[1] >> \o SortHunks(ha, Tail(hb))

\* The test that stops pulling hunks into the current region.
NoOverlap(nextHunkStart, regionEnd) == nextHunkStart > regionEnd

\* Pull every overlapping hunk into the region that starts with hunks[1]:
\* the number of hunks taken and the region's end.
RECURSIVE PullRegion(_, _, _)
PullRegion(hunks, n, regionEnd) ==
  IF n + 1 > Len(hunks) THEN [n |-> n, regionEnd |-> regionEnd]
  ELSE IF NoOverlap(hunks[n + 1].oStart, regionEnd)
       THEN [n |-> n, regionEnd |-> regionEnd]
       ELSE PullRegion(hunks, n + 1,
                       Max2(regionEnd, hunks[n + 1].oStart + hunks[n + 1].oLength))

StableRegion(buffer, start, content) ==
  [stable |-> TRUE, buffer |-> buffer, bufferStart |-> start,
   bufferContent |-> content, aStart |-> 0, aContent |-> << >>,
   bStart |-> 0, bContent |-> << >>, oContent |-> << >>]

\* bounds[side] widened by one hunk of that side.
WidenBounds(bd, h, side) ==
  IF h.ab # side THEN bd
  ELSE << Min2(h.abStart, bd[1]), Max2(h.abStart + h.abLength, bd[2]),
          Min2(h.oStart, bd[3]), Max2(h.oStart + h.oLength, bd[4]) >>

\* bounds[side] folded over the region's hunks.
SideBounds(regionHunks, side, sideLen, oLen) ==
  LET F[k \in 0..Len(regionHunks)] ==
        IF k = 0 THEN << sideLen, -1, oLen, -1 >>
        ELSE WidenBounds(F[k - 1], regionHunks[k], side)
  IN F[Len(regionHunks)]

\* The unstable region cut out of a, o and b from the two sides' bounds.
ConflictOf(a, o, b, regionStart, regionEnd, ba, bb) ==
  [stable |-> FALSE, buffer |-> "", bufferStart |-> 0, bufferContent |-> << >>,
   aStart |-> ba[1] + (regionStart - ba[3]),
   aContent |-> Slice(a, ba[1] + (regionStart - ba[3]), ba[2] + (regionEnd - ba[4])),
   bStart |-> bb[1] + (regionStart - bb[3]),
   bContent |-> Slice(b, bb[1] + (regionStart - bb[3]), bb[2] + (regionEnd - bb[4])),
   oContent |-> Slice(o, regionStart, regionEnd)]

ConflictRegion(a, o, b, regionHunks, regionStart, regionEnd) ==
  ConflictOf(a, o, b, regionStart, regionEnd,
             SideBounds(regionHunks, "a", Len(a), Len(o)),
             SideBounds(regionHunks, "b", Len(b), Len(o)))

\* advanceTo(endOffset): the stable stretch of o up to endOffset, if any.
AdvanceTo(o, currOffset, endOffset) ==
  IF endOffset > currOffset
  THEN << StableRegion("o", currOffset, Slice(o, currOffset, endOffset)) >>
  ELSE << >>

\* A faulty single-hunk case that loses the side's change.
SkipHunk(a, b, hunk) == << >>

\* A region of one hunk is a stable stretch of the side that changed.
SingleHunkRegion(a, b, hunk) ==
  IF hunk.abLength > 0
  THEN << StableRegion(hunk.ab, hunk.abStart,
                       Slice(IF hunk.ab = "a" THEN a ELSE b,
                             hunk.abStart, hunk.abStart + hunk.abLength)) >>
  ELSE << >>

RegionOf(a, o, b, hunks, pulled) ==
  IF pulled.n = 1 THEN SingleHunkRegion(a, b, hunks[1])
  ELSE << ConflictRegion(a, o, b, SubSeq(hunks, 1, pulled.n),
                         hunks[1].oStart, pulled.regionEnd) >>

\* The `while (hunks.length)` loop; RegionStep is one pass, given the hunks
\* pulled into the region.
RECURSIVE RegionsLoop(_, _, _, _, _)
RECURSIVE RegionStep(_, _, _, _, _, _)
RegionsLoop(a, o, b, hunks, currOffset) ==
  IF hunks = << >> THEN AdvanceTo(o, currOffset, Len(o))
  ELSE RegionStep(a, o, b, hunks, currOffset,
                  PullRegion(hunks, 1, hunks[1].oStart + hunks[1].oLength))

RegionStep(a, o, b, hunks, currOffset, pulled) ==
  AdvanceTo(o, currOffset, hunks[1].oStart)
    \o RegionOf(a, o, b, hunks, pulled)
    \o RegionsLoop(a, o, b, SubSeq(hunks, pulled.n + 1, Len(hunks)), pulled.regionEnd)

Diff3MergeRegions(a, o, b) ==
  RegionsLoop(a, o, b, SortHunks(HunksOf(o, a, "a"), HunksOf(o, b, "b")), 0)

\* A faulty isFalseConflict that takes every conflict for a false one, so
\* that side a always wins.
EveryConflictFalse(x, y) == TRUE

\* A faulty isFalseConflict that reports equal changes as conflicts.
NeverFalseConflict(x, y) == FALSE

\* isFalseConflict: both sides made the same change.
IsFalseConflict(x, y) == x = y

OkResult(lines) == [ok |-> TRUE, lines |-> lines, a |-> << >>, b |-> << >>]

\* A faulty conflict result with the two sides exchanged.
SwappedSides(x, y) == [ok |-> FALSE, lines |-> << >>, a |-> y, b |-> x]

ConflictResult(x, y) == [ok |-> FALSE, lines |-> << >>, a |-> x, b |-> y]

FlushOk(okBuffer) == IF okBuffer # << >> THEN << OkResult(okBuffer) >> ELSE << >>

\* diff3Merge(a, o, b) with the default excludeFalseConflicts: true.
RECURSIVE MergeLoop(_, _, _)
MergeLoop(regions, k, okBuffer) ==
  IF k > Len(regions) THEN FlushOk(okBuffer)
  ELSE IF regions[k].stable
       THEN MergeLoop(regions, k + 1, okBuffer \o regions[k].bufferContent)
       ELSE IF IsFalseConflict(regions[k].aContent, regions[k].bContent)
            THEN MergeLoop(regions, k + 1, okBuffer \o regions[k].aContent)
            ELSE FlushOk(okBuffer)
                   \o << ConflictResult(regions[k].aContent, regions[k].bContent) >>
                   \o MergeLoop(regions, k + 1, << >>)

Diff3Merge(a, o, b) == MergeLoop(Diff3MergeRegions(a, o, b), 1, << >>)

\* ------------------------------------------------------------ threeWayMerge

DefaultOursLabel == [text |-> "ours (your changes)", ver |-> 0]

DefaultTheirsLabel == [text |-> "theirs (upstream)", ver |-> 0]

NoLabel == [text |-> "", ver |-> 0]

\* `labels?.ours || default`: an absent or empty label falls back.
LabelOr(label, default) == IF label = NoLabel THEN default ELSE label

OursMarker(label) == [kind |-> "ours", text |-> label.text, ver |-> label.ver, cr |-> FALSE]

SepMarker == [kind |-> "sep", text |-> "", ver |-> 0, cr |-> FALSE]

TheirsMarker(label) == [kind |-> "theirs", text |-> label.text, ver |-> label.ver, cr |-> FALSE]

\* What one merge result contributes to mergedLines.
ResultLines(result, oursLabel, theirsLabel) ==
  IF result.ok THEN result.lines
  ELSE << OursMarker(LabelOr(oursLabel, DefaultOursLabel)) >> \o result.a
         \o << SepMarker >> \o result.b
         \o << TheirsMarker(LabelOr(theirsLabel, DefaultTheirsLabel)) >>

\* The `for (const result of mergeResults)` loop: mergedLines and
\* conflictCount after the first k results.
RECURSIVE MergedLines(_, _, _, _)
MergedLines(mergeResults, k, oursLabel, theirsLabel) ==
  IF k > Len(mergeResults) THEN << >>
  ELSE ResultLines(mergeResults[k], oursLabel, theirsLabel)
         \o MergedLines(mergeResults, k + 1, oursLabel, theirsLabel)

IsConflictResult(result) == ~result.ok

ConflictCount(mergeResults) == Len(SelectSeq(mergeResults, IsConflictResult))

MergeResultOf(mergeResults, oursLabel, theirsLabel) ==
  [success |-> ConflictCount(mergeResults) = 0,
   content |-> JoinLines(MergedLines(mergeResults, 1, oursLabel, theirsLabel)),
   conflictCount |-> ConflictCount(mergeResults)]

ThreeWayMerge(base, ours, theirs, oursLabel, theirsLabel) ==
  MergeResultOf(Diff3Merge(ours, base, theirs), oursLabel, theirsLabel)

\* content.match(/<<<<<<</g): the occurrences of seven '<' in one line.
OursMarkOccurrences(line) == IF line.kind = "ours" THEN 1 ELSE 0

TheirsMarkOccurrences(line) == IF line.kind = "theirs" THEN 1 ELSE 0

RECURSIVE SumOver(_, _)
SumOver(seq, k) ==
  IF seq = << >> THEN 0
  ELSE (IF k = "ours" THEN OursMarkOccurrences(seq[1])
        ELSE TheirsMarkOccurrences(seq[1])) + SumOver(Tail(seq), k)

CountConflicts(content) == SumOver(content, "ours")

CountTheirsMarks(content) == SumOver(content, "theirs")

\* ---------------------------------------------------------------- checksum

\* A faulty computeChecksum input that keeps the line endings as they are.
KeepLineEndings(content) == content

\* content.replace(/\r\n/g, "\n"): a carriage return is dropped where a line
\* feed follows it, that is on every line but the last.
NormalizeLineEndings(content) ==
  [k \in 1..Len(content) |->
     IF k < Len(content) THEN [content[k] EXCEPT !.cr = FALSE] ELSE content[k]]

\* computeChecksum: "sha256:" + hex digest of the normalized text. The digest
\* is modelled by the text it is computed from (no collisions).
ComputeChecksum(content) ==
  [fmt |-> "sha256:hex64", digest |-> NormalizeLineEndings(content)]

CompareChecksums(expected, actual) == expected = actual

\* --------------------------------------------------------------- lock file

LOCK_FILE_VERSION == "1.0"

DEFAULT_REGISTRY_URL == "https://voidui.dev/r"

LocalRegistryUrl == "http://localhost:3000/r"

NoEntries == [c \in {} |-> 0]

\* The lock file as it lies on disk. json says what JSON.parse makes of the
\* text: "garbage" does not parse, "falsy" parses to null / false / 0 / "",
\* "object" parses to an object with the fields that follow.
AbsentFile ==
  [exists |-> FALSE, json |-> "object", hasVersion |-> TRUE,
   componentsIsMap |-> TRUE, version |-> LOCK_FILE_VERSION, components |-> NoEntries]

StoreFile(store) ==
  [exists |-> TRUE, json |-> "object", hasVersion |-> TRUE,
   componentsIsMap |-> TRUE, version |-> store.version, components |-> store.components]

\* semverSchema, isoDateSchema, checksumSchema, z.string().url().optional()
SemverOk(v) == v >= 1

IsoDateOk(d) == d = "iso8601"

ChecksumFormatOk(sum) == sum.fmt = "sha256:hex64"

UrlOk(u) == u \in {DEFAULT_REGISTRY_URL, LocalRegistryUrl}

ComponentLockEntrySchemaOk(e) ==
  /\ SemverOk(e.installedVersion)
  /\ IsoDateOk(e.installedAt)
  /\ ChecksumFormatOk(e.checksum)
  /\ UrlOk(e.registryUrl)

LockFileSchemaOk(raw) ==
  /\ raw.hasVersion
  /\ raw.componentsIsMap
  /\ \A c \in DOMAIN raw.components : ComponentLockEntrySchemaOk(raw.components[c])

\* readJsonFile: the parsed value, or null when reading or parsing throws.
ReadJsonFileIsNull(raw) == raw.json = "garbage"

\* readLockFile: kind "null" (not found), "store", or "throw" (the
\* "Lock file is corrupted" error).
ReadLockFile(raw) ==
  LET none == [version |-> LOCK_FILE_VERSION, components |-> NoEntries]
  IN IF ~raw.exists THEN [kind |-> "null", store |-> none]
     ELSE IF ReadJsonFileIsNull(raw) \/ raw.json = "falsy"
          THEN [kind |-> "null", store |-> none]
          ELSE IF LockFileSchemaOk(raw)
               THEN [kind |-> "store",
                     store |-> [version |-> raw.version, components |-> raw.components]]
               ELSE [kind |-> "throw", store |-> none]

\* readOrCreateLockFile
ReadOrCreateLockFile(raw) ==
  LET existing == ReadLockFile(raw)
  IN IF existing.kind = "null"
     THEN [kind |-> "store",
           store |-> [version |-> LOCK_FILE_VERSION, components |-> NoEntries]]
     ELSE existing

\* A faulty updateComponentEntry that forgets the spread of the old components.
OnlyNewEntry(lockFile, componentName, entry) ==
  [lockFile EXCEPT !.components = [c \in {componentName} |-> entry]]

UpdateComponentEntry(lockFile, componentName, entry) ==
  [lockFile EXCEPT !.components =
     [c \in DOMAIN lockFile.components \cup {componentName} |->
        IF c = componentName THEN entry ELSE lockFile.components[c]]]

\* A faulty removeComponentEntry that returns no components at all.
ClearComponents(lockFile, componentName) ==
  [lockFile EXCEPT !.components = NoEntries]

\* removeComponentEntry: the rest of a destructuring that takes
\* componentName out of the own keys.
RemoveComponentEntry(lockFile, componentName) ==
  [lockFile EXCEPT !.components =
     [c \in DOMAIN lockFile.components \ {componentName} |-> lockFile.components[c]]]

\* Property names every components object inherits from Object.prototype.
ObjectPrototypeKeys == {"constructor", "toString"}

\* `componentName in lockFile.components`: an own key or an inherited one.
IsComponentTracked(lockFile, componentName) ==
  \/ componentName \in DOMAIN lockFile.components
  \/ componentName \in ObjectPrototypeKeys

\* `lockFile.components[componentName] || null`: the own record, else the
\* inherited property (a function, which is truthy), else null.
GetComponentEntry(lockFile, componentName) ==
  IF componentName \in DOMAIN lockFile.components
  THEN [kind |-> "entry", entry |-> lockFile.components[componentName]]
  ELSE IF componentName \in ObjectPrototypeKeys
       THEN [kind |-> "inherited"]
       ELSE [kind |-> "null"]

\* ------------------------------------------------------------------ bounds

\* Registry releases of a component: versions 1..MaxVersion.
MaxVersion == 3

\* User edits of the component file (line rewrites, deletion).
MaxEdits == 2

\* The user rewrites one of the first MaxEditLine lines of the file.
MaxEditLine == 2

\* ------------------------------------------------------------------- state

Components == {"button"}

VARIABLES
  regCur,      \* regCur[c]: the registry's currentVersion of component c
  files,       \* files[c]: the component file, [exists, content]
  lockDisk,    \* voidui.lock.json as it lies on disk
  edits,       \* user edits made so far
  lastWritten, \* lastWritten[c]: what the last successful install / update of c
               \* put on record, [valid, content]
  last,        \* the command or event that ran last, with what it read and did
  mBase, mOurs, mTheirs, mLabels, mResult, mDone, \* one threeWayMerge call
  call,        \* one call of a library function: its name, arguments and result
  versionFiles,  \* the versions that have a snapshot file <component>.versions/<v>.tsx
  changelogDisk, \* <component>.changelog.json as it lies on disk
  snapLast,      \* the snapshotCommand run or changelog edit that happened last
  fetchRun       \* one fetchRegistryItem call: where it stands and what it saw

cmdVars == << regCur, files, lockDisk, edits, lastWritten, last >>

mergeVars == << mBase, mOurs, mTheirs, mLabels, mResult, mDone >>

snapVars == << versionFiles, changelogDisk, snapLast >>

\* What the commands and the merge leave alone.
toolVars == << call, snapVars, fetchRun >>

vars == << cmdVars, mergeVars, call, snapVars, fetchRun >>

\* ----------------------------------------------------------------- registry

\* The component source the registry serves at each version: version 2
\* changes line 3, version 3 line 1, version 4 line 2.
UpstreamCode(v) ==
  << IF v >= 3 THEN Txt("Z") ELSE Txt("a"),
     IF v >= 4 THEN Txt("W") ELSE Txt("b"),
     IF v >= 2 THEN Txt("Y") ELSE Txt("c") >>

\* `options.registry || DEFAULT_REGISTRY_URL`
ResolveRegistryUrl(opt) == IF opt = "" THEN DEFAULT_REGISTRY_URL ELSE opt

RegistryOptions == {"", LocalRegistryUrl}

\* registryUrl.includes("localhost") || registryUrl.includes("127.0.0.1")
IsLocalhost(url) == url = LocalRegistryUrl

\* fetchRegistryItem answers: the item, 404 (null), or an item without
\* meta.versioning.
Responses == {"ok", "notfound", "noversioning"}

ExtractComponentCode(version) == UpstreamCode(version)

\* fetchComponentVersion: the registry's files for the current version; for
\* another version only a localhost registry with the snapshot file
\* <component>.versions/<version>.tsx on disk; otherwise null.
FetchComponentVersion(version, currentVersion, registryUrl, resp, localFile) ==
  IF resp = "notfound" THEN [found |-> FALSE, content |-> << >>]
  ELSE IF resp = "ok" /\ currentVersion = version
       THEN [found |-> TRUE, content |-> ExtractComponentCode(currentVersion)]
       ELSE IF IsLocalhost(registryUrl) /\ localFile
            THEN [found |-> TRUE, content |-> UpstreamCode(version)]
            ELSE [found |-> FALSE, content |-> << >>]

\* `!baseContent`: null, or the empty string.
BaseMissing(baseContent) ==
  ~baseContent.found \/ baseContent.content = << EmptyLine >>

\* ----------------------------------------------------------- command record

NoMerge == [success |-> TRUE, content |-> << >>, conflictCount |-> 0]

NoChecksum == [fmt |-> "", digest |-> << >>]

LastNone ==
  [cmd |-> "none", comp |-> "", outcome |-> "", exitCode |-> 0,
   scan |-> FALSE, force |-> FALSE, merge |-> FALSE,
   lockRead |-> "", tracked |-> FALSE,
   entryVersion |-> 0, entryChecksum |-> NoChecksum,
   isModified |-> FALSE, strategy |-> "", baseAvailable |-> FALSE,
   confirm |-> "", mergeCalled |-> FALSE,
   base |-> << >>, ours |-> << >>, theirs |-> << >>, mergeResult |-> NoMerge,
   installerRan |-> FALSE, wroteFile |-> FALSE, wroteLock |-> FALSE]

NoFile == [exists |-> FALSE, content |-> << >>]

FileOf(content) == [exists |-> TRUE, content |-> content]

NotRecorded == [valid |-> FALSE, content |-> << >>]

Recorded(content) == [valid |-> TRUE, content |-> content]

\* -------------------------------------------------------------- addCommand

\* The record addCommand writes for a component.
AddEntry(currentVersion, checksum, registryUrl) ==
  [installedVersion |-> currentVersion, installedAt |-> "iso8601",
   checksum |-> checksum, registryUrl |-> registryUrl]

\* The "already tracked" early return of addCommand.
AddStopsAtTracked(lockFile, component, force) ==
  IsComponentTracked(lockFile, component) /\ ~force

\* One run of addCommand(component, {scan, force, registry}) against the
\* registry answer resp and an installer that succeeds or fails.
AddRun(c, scan, force, registryOpt, resp, installOk) ==
  LET registryUrl == ResolveRegistryUrl(registryOpt)
      location == files[c]
      currentVersion == regCur[c]
      installs == ~scan
      installed == IF installs THEN FileOf(ExtractComponentCode(currentVersion))
                   ELSE location
      checksum == ComputeChecksum(installed.content)
      read == ReadOrCreateLockFile(lockDisk)
      lockFile == read.store
      updatedLockFile ==
        UpdateComponentEntry(lockFile, c, AddEntry(currentVersion, checksum, registryUrl))
      stop(outcome, code, file, ran) ==
        [outcome |-> outcome, exitCode |-> code, file |-> file, lock |-> lockDisk,
         installerRan |-> ran, wroteLock |-> FALSE, lockRead |-> "",
         tracked |-> FALSE, scan |-> FALSE, force |-> FALSE]
  IN IF location.exists /\ ~scan /\ ~force THEN stop("exit_exists", 1, location, FALSE)
     ELSE IF resp = "notfound" THEN stop("exit_notfound", 1, location, FALSE)
     ELSE IF resp = "noversioning" THEN stop("exit_noversioning", 1, location, FALSE)
     ELSE IF installs /\ ~installOk THEN stop("exit_installfail", 1, location, FALSE)
     ELSE IF ~installed.exists THEN stop("exit_notinstalled", 1, installed, installs)
     ELSE IF read.kind = "throw"
          THEN [stop("error_corruptlock", 1, installed, installs)
                  EXCEPT !.lockRead = "throw"]
     ELSE IF AddStopsAtTracked(lockFile, c, force)
          THEN [stop("already_tracked", 0, installed, installs)
                  EXCEPT !.lockRead = "store", !.tracked = TRUE,
                         !.scan = scan, !.force = force]
     ELSE [outcome |-> "added", exitCode |-> 0, file |-> installed,
           lock |-> StoreFile(updatedLockFile), installerRan |-> installs,
           wroteLock |-> TRUE, lockRead |-> "store",
           tracked |-> IsComponentTracked(lockFile, c),
           scan |-> scan, force |-> force]

\* The run gets as far as the installer.
RunsInstaller(c, scan, force, resp) ==
  /\ ~(files[c].exists /\ ~scan /\ ~force)
  /\ resp = "ok"
  /\ ~scan

\* The effect of one run r of addCommand on the disk and on the record kept
\* of the last command.
AddEffect(c, r) ==
  /\ files' = [files EXCEPT ![c] = r.file]
  /\ lockDisk' = r.lock
  /\ lastWritten' =
       IF r.installerRan \/ r.wroteLock
       THEN [lastWritten EXCEPT ![c] = Recorded(r.file.content)]
       ELSE lastWritten
  /\ last' = [LastNone EXCEPT !.cmd = "add", !.comp = c,
                !.outcome = r.outcome, !.exitCode = r.exitCode,
                !.scan = r.scan, !.force = r.force,
                !.lockRead = r.lockRead, !.tracked = r.tracked,
                !.installerRan = r.installerRan,
                !.wroteFile = r.installerRan, !.wroteLock = r.wroteLock]
  /\ UNCHANGED << regCur, edits, mergeVars, toolVars >>

Add(c) ==
  \E scan \in BOOLEAN, force \in BOOLEAN :
   \E resp \in IF files[c].exists /\ ~scan /\ ~force THEN {"ok"} ELSE Responses :
    \E installOk \in IF RunsInstaller(c, scan, force, resp) THEN BOOLEAN ELSE {TRUE},
       registryOpt \in IF resp = "ok" THEN RegistryOptions ELSE {""} :
     AddEffect(c, AddRun(c, scan, force, registryOpt, resp, installOk))

\* ----------------------------------------------------------- updateCommand

StrategyChoices == {"merge", "overwrite", "diff", "abort", "dismissed"}

ConfirmAnswers == {"yes", "no", "dismissed"}

\* step 4: `!compareChecksums(entry.checksum, currentChecksum)`
IsModified(expectedChecksum, content) ==
  ~CompareChecksums(expectedChecksum, ComputeChecksum(content))

\* step 5: the strategy, from the flags or from the prompt's answer.
UpdateStrategy(isModified, force, merge, choice) ==
  IF isModified /\ ~force /\ ~merge THEN choice
  ELSE IF force THEN "overwrite"
  ELSE IF merge THEN "merge"
  ELSE "overwrite"

\* step 6: `updateStrategy === "merge" && isModified`
TakesMergeBranch(updateStrategy, isModified) ==
  updateStrategy = "merge" /\ isModified

\* A faulty already-latest check that never returns early.
NeverLatest(entry, latestVersion) == FALSE

\* `if (entry.installedVersion === latestVersion) { ...; return; }`
AlreadyLatest(entry, latestVersion) == entry.installedVersion = latestVersion

\* A faulty confirmation check that never returns early.
ConfirmIgnored(confirm) == FALSE

\* `if (!confirmResponse.overwrite) return`
ConfirmDeclined(confirm) == confirm # "yes"

UpdateLabels(latestVersion) ==
  [ours |-> [text |-> "your changes", ver |-> 0],
   theirs |-> [text |-> "v", ver |-> latestVersion]]

\* The base argument of the merge: the registry's content of the recorded
\* installedVersion.
BaseContent(entry, latestVersion, registryUrl, resp, localFile) ==
  FetchComponentVersion(entry.installedVersion, latestVersion, registryUrl,
                        resp, localFile)

\* A faulty step 8 that builds the record anew, without `...entry`.
FreshEntry(entry, latestVersion, newChecksum) ==
  [installedVersion |-> latestVersion, installedAt |-> "iso8601",
   checksum |-> newChecksum, registryUrl |-> DEFAULT_REGISTRY_URL]

\* A faulty step 8 that moves the version on and keeps the old checksum.
StaleChecksumEntry(entry, latestVersion, newChecksum) ==
  [entry EXCEPT !.installedVersion = latestVersion,
                !.installedAt = "iso8601"]

\* step 8: the record written after the update.
UpdatedEntry(entry, latestVersion, newChecksum) ==
  [entry EXCEPT !.installedVersion = latestVersion,
                !.installedAt = "iso8601",
                !.checksum = newChecksum]

\* steps 7 and 8: the file is written, then the record, then the lock file.
Written(from, newContent, lockFile, c, entry, latestVersion) ==
  [from EXCEPT
     !.file = FileOf(newContent),
     !.lock = StoreFile(UpdateComponentEntry(lockFile, c,
                UpdatedEntry(entry, latestVersion, ComputeChecksum(newContent)))),
     !.wrote = TRUE, !.exitCode = 0]

\* step 6 with a base: the merge result is what gets written, conflict
\* markers included.
WriteMerged(from, mergeResult, base, ours, theirs, lockFile, c, entry, latestVersion) ==
  Written([from EXCEPT
             !.outcome = IF mergeResult.success THEN "updated"
                         ELSE "updated_conflicts",
             !.baseAvailable = TRUE, !.mergeCalled = TRUE,
             !.base = base, !.ours = ours,
             !.theirs = theirs, !.mergeResult = mergeResult],
          mergeResult.content, lockFile, c, entry, latestVersion)

\* One run of updateCommand(component, {force, merge, registry}).
UpdateRun(c, force, merge, registryOpt, resp, choice, confirm, localFile) ==
  LET registryUrl == ResolveRegistryUrl(registryOpt)
      read == ReadLockFile(lockDisk)
      lockFile == read.store
      tracked == IsComponentTracked(lockFile, c)
      entry == lockFile.components[c]
      latestVersion == regCur[c]
      location == files[c]
      isModified == IsModified(entry.checksum, location.content)
      updateStrategy == UpdateStrategy(isModified, force, merge, choice)
      baseContent == BaseContent(entry, latestVersion, registryUrl, resp, localFile)
      oursContent == location.content
      theirsContent == ExtractComponentCode(latestVersion)
      labels == UpdateLabels(latestVersion)
      base == [outcome |-> "", exitCode |-> 1, file |-> location, lock |-> lockDisk,
               lockRead |-> read.kind, tracked |-> FALSE,
               entryVersion |-> 0, entryChecksum |-> NoChecksum,
               isModified |-> FALSE, strategy |-> "", baseAvailable |-> FALSE,
               confirm |-> "", mergeCalled |-> FALSE,
               base |-> << >>, ours |-> << >>, theirs |-> << >>,
               mergeResult |-> NoMerge, wrote |-> FALSE,
               force |-> FALSE, merge |-> FALSE]
      seen == [base EXCEPT !.tracked = TRUE,
                           !.entryVersion = entry.installedVersion,
                           !.entryChecksum = entry.checksum]
      checked == [seen EXCEPT !.isModified = isModified]
      decided == [checked EXCEPT !.strategy = updateStrategy,
                                 !.force = force, !.merge = merge]
  IN IF read.kind = "throw" THEN [base EXCEPT !.outcome = "error_corruptlock"]
     ELSE IF read.kind = "null" THEN [base EXCEPT !.outcome = "exit_nolock"]
     ELSE IF ~tracked THEN [base EXCEPT !.outcome = "exit_untracked"]
     ELSE IF resp = "notfound" THEN [seen EXCEPT !.outcome = "exit_notfound"]
     ELSE IF resp = "noversioning" THEN [seen EXCEPT !.outcome = "exit_noversioning"]
     ELSE IF ~location.exists THEN [seen EXCEPT !.outcome = "exit_nofile"]
     ELSE IF AlreadyLatest(entry, latestVersion)
          THEN [checked EXCEPT !.outcome = "already_latest", !.exitCode = 0]
     ELSE IF updateStrategy \in {"abort", "dismissed"}
          THEN [decided EXCEPT !.outcome = "cancelled", !.exitCode = 0]
     ELSE IF updateStrategy = "diff"
          THEN [decided EXCEPT !.outcome = "diff_shown", !.exitCode = 0]
     ELSE IF TakesMergeBranch(updateStrategy, isModified)
          THEN IF BaseMissing(baseContent)
               THEN IF ConfirmDeclined(confirm)
                    THEN [decided EXCEPT !.outcome = "fallback_declined",
                                         !.exitCode = 0, !.confirm = confirm]
                    ELSE Written([decided EXCEPT !.outcome = "updated",
                                                 !.confirm = confirm],
                                 theirsContent, lockFile, c, entry, latestVersion)
               ELSE WriteMerged(decided,
                                ThreeWayMerge(baseContent.content, oursContent,
                                              theirsContent, labels.ours, labels.theirs),
                                baseContent.content, oursContent, theirsContent,
                                lockFile, c, entry, latestVersion)
     ELSE Written([decided EXCEPT !.outcome = "updated"],
                  theirsContent, lockFile, c, entry, latestVersion)

\* The run gets as far as choosing a strategy (steps 1 to 4 passed and the
\* recorded version is not the latest).
ReachesStrategy(c, resp) ==
  LET read == ReadLockFile(lockDisk)
  IN /\ read.kind = "store"
     /\ IsComponentTracked(read.store, c)
     /\ resp = "ok"
     /\ files[c].exists
     /\ read.store.components[c].installedVersion # regCur[c]

RecordedChecksum(c) == ReadLockFile(lockDisk).store.components[c].checksum

\* The strategy prompt is shown.
Prompted(c, force, merge, resp) ==
  /\ ReachesStrategy(c, resp)
  /\ IsModified(RecordedChecksum(c), files[c].content)
  /\ ~force /\ ~merge

\* The run enters the merge branch, which asks the registry for the base.
EntersMerge(c, force, merge, resp, choice) ==
  /\ ReachesStrategy(c, resp)
  /\ TakesMergeBranch(
       UpdateStrategy(IsModified(RecordedChecksum(c), files[c].content),
                      force, merge, choice),
       IsModified(RecordedChecksum(c), files[c].content))

\* The overwrite confirmation is shown.
AsksConfirm(c, force, merge, registryOpt, resp, choice, localFile) ==
  /\ EntersMerge(c, force, merge, resp, choice)
  /\ BaseMissing(BaseContent(ReadLockFile(lockDisk).store.components[c], regCur[c],
                             ResolveRegistryUrl(registryOpt), resp, localFile))

\* The effect of one run r of updateCommand on the disk and on the record
\* kept of the last command.
UpdateEffect(c, r) ==
  /\ files' = [files EXCEPT ![c] = r.file]
  /\ lockDisk' = r.lock
  /\ lastWritten' =
       IF r.wrote THEN [lastWritten EXCEPT ![c] = Recorded(r.file.content)]
       ELSE lastWritten
  /\ last' = [LastNone EXCEPT !.cmd = "update", !.comp = c,
                !.outcome = r.outcome, !.exitCode = r.exitCode,
                !.force = r.force, !.merge = r.merge,
                !.lockRead = r.lockRead, !.tracked = r.tracked,
                !.entryVersion = r.entryVersion,
                !.entryChecksum = r.entryChecksum,
                !.isModified = r.isModified, !.strategy = r.strategy,
                !.baseAvailable = r.baseAvailable, !.confirm = r.confirm,
                !.mergeCalled = r.mergeCalled, !.base = r.base,
                !.ours = r.ours, !.theirs = r.theirs,
                !.mergeResult = r.mergeResult,
                !.wroteFile = r.wrote, !.wroteLock = r.wrote]
  /\ UNCHANGED << regCur, edits, mergeVars, toolVars >>

\* The run gets as far as asking the registry (steps 1 and 2 passed).
AsksRegistry(c) ==
  /\ ReadLockFile(lockDisk).kind = "store"
  /\ IsComponentTracked(ReadLockFile(lockDisk).store, c)

Update(c) ==
  \E resp \in IF AsksRegistry(c) THEN Responses ELSE {"ok"} :
   \E force \in IF ReachesStrategy(c, resp) THEN BOOLEAN ELSE {FALSE},
      merge \in IF ReachesStrategy(c, resp) THEN BOOLEAN ELSE {FALSE} :
    \E choice \in IF Prompted(c, force, merge, resp) THEN StrategyChoices ELSE {""} :
     \E registryOpt \in IF EntersMerge(c, force, merge, resp, choice)
                         THEN RegistryOptions ELSE {""} :
      \E localFile \in IF EntersMerge(c, force, merge, resp, choice)
                          /\ IsLocalhost(ResolveRegistryUrl(registryOpt))
                       THEN BOOLEAN ELSE {FALSE} :
       \E confirm \in IF AsksConfirm(c, force, merge, registryOpt, resp, choice, localFile)
                      THEN ConfirmAnswers ELSE {""} :
        UpdateEffect(c, UpdateRun(c, force, merge, registryOpt, resp, choice,
                                  confirm, localFile))

\* ------------------------------------------------------------- diffCommand

\* compareLocalVsRegistry, steps 2 and 3: what the command makes of the lock
\* file and the `isModified` it computes.
DiffLockRead(raw, c) ==
  IF ~raw.exists THEN [lockRead |-> "absent", tracked |-> FALSE, expected |-> NoChecksum]
  ELSE IF ReadJsonFileIsNull(raw) \/ raw.json = "falsy"
       THEN [lockRead |-> "null", tracked |-> FALSE, expected |-> NoChecksum]
       ELSE IF ~LockFileSchemaOk(raw)
            THEN [lockRead |-> "corrupt_warned", tracked |-> FALSE,
                  expected |-> NoChecksum]
            ELSE IF c \in DOMAIN raw.components
                 THEN [lockRead |-> "store", tracked |-> TRUE,
                       expected |-> raw.components[c].checksum]
                 ELSE [lockRead |-> "store", tracked |-> FALSE,
                       expected |-> NoChecksum]

\* `expectedChecksum && !compareChecksums(expectedChecksum, actualChecksum)`
DiffIsModified(hasExpected, expectedChecksum, content) ==
  hasExpected /\ ~CompareChecksums(expectedChecksum, ComputeChecksum(content))

Diff(c) ==
  \E resp \in Responses :
    LET location == files[c]
        lk == DiffLockRead(lockDisk, c)
        isModified == DiffIsModified(lk.tracked, lk.expected, location.content)
        outcome == IF ~location.exists THEN "exit_nofile"
                   ELSE IF resp = "notfound" THEN "exit_notfound"
                   ELSE IF resp = "noversioning" THEN "exit_noversioning"
                   ELSE "shown"
    IN /\ last' = IF ~location.exists
                  THEN [LastNone EXCEPT !.cmd = "diff", !.comp = c,
                          !.outcome = outcome, !.exitCode = 1]
                  ELSE [LastNone EXCEPT !.cmd = "diff", !.comp = c,
                          !.outcome = outcome,
                          !.exitCode = IF outcome = "shown" THEN 0 ELSE 1,
                          !.lockRead = lk.lockRead, !.tracked = lk.tracked,
                          !.entryChecksum = lk.expected,
                          !.isModified = isModified]
       /\ UNCHANGED << regCur, files, lockDisk, edits, lastWritten, mergeVars, toolVars >>

\* ------------------------------------------------------------- environment

Event(name, c) == [LastNone EXCEPT !.cmd = name, !.comp = c]

\* The registry publishes the next version of a component.
Release(c) ==
  /\ regCur[c] < MaxVersion
  /\ regCur' = [regCur EXCEPT ![c] = @ + 1]
  /\ last' = Event("release", c)
  /\ UNCHANGED << files, lockDisk, edits, lastWritten, mergeVars, toolVars >>

\* The user rewrites one line of the component file.
UserEdit(c) ==
  /\ edits < MaxEdits
  /\ files[c].exists
  /\ \E k \in 1..Min2(Len(files[c].content), MaxEditLine) :
       /\ files[c].content[k] # Txt("X")
       /\ files' = [files EXCEPT ![c].content[k] = Txt("X")]
  /\ edits' = edits + 1
  /\ last' = Event("edit", c)
  /\ UNCHANGED << regCur, lockDisk, lastWritten, mergeVars, toolVars >>

\* The user deletes (or moves away) the component file.
UserDelete(c) ==
  /\ edits < MaxEdits
  /\ files[c].exists
  /\ files' = [files EXCEPT ![c] = NoFile]
  /\ edits' = edits + 1
  /\ last' = Event("delete", c)
  /\ UNCHANGED << regCur, lockDisk, lastWritten, mergeVars, toolVars >>

MalformedChecksum == [fmt |-> "malformed", digest |-> << >>]

DamagedEntry ==
  [installedVersion |-> 1, installedAt |-> "iso8601",
   checksum |-> MalformedChecksum, registryUrl |-> DEFAULT_REGISTRY_URL]

\* The lock file is damaged or removed outside the CLI: text that is not
\* JSON, JSON null, an object without version, components that is no
\* mapping, a record whose checksum is malformed, no file.
LockDamage ==
  { [AbsentFile EXCEPT !.exists = TRUE, !.json = "garbage"],
    [AbsentFile EXCEPT !.exists = TRUE, !.json = "falsy"],
    [AbsentFile EXCEPT !.exists = TRUE, !.hasVersion = FALSE],
    [AbsentFile EXCEPT !.exists = TRUE, !.componentsIsMap = FALSE],
    [AbsentFile EXCEPT !.exists = TRUE,
                       !.components = [c \in Components |-> DamagedEntry]],
    AbsentFile }

ExternalLockEdit ==
  /\ \E damaged \in LockDamage :
       /\ damaged # lockDisk
       /\ lockDisk' = damaged
  /\ last' = Event("lockedit", "")
  /\ UNCHANGED << regCur, files, edits, lastWritten, mergeVars, toolVars >>

\* ------------------------------------------------------- command machine

NoLabels == [ours |-> NoLabel, theirs |-> NoLabel]

MergeIdle ==
  /\ mBase = << >> /\ mOurs = << >> /\ mTheirs = << >>
  /\ mLabels = NoLabels /\ mResult = NoMerge /\ mDone = FALSE

CmdInit ==
  /\ regCur = [c \in Components |-> 1]
  /\ files = [c \in Components |-> NoFile]
  /\ lockDisk = AbsentFile
  /\ edits = 0
  /\ lastWritten = [c \in Components |-> NotRecorded]
  /\ last = LastNone

\* A lock file an earlier release of the CLI wrote: another version string
\* and the record of a component that the commands here are not run on.
EarlierLockFile ==
  StoreFile([version |-> "0.9",
             components |-> [c \in {"card"} |->
                AddEntry(1, ComputeChecksum(UpstreamCode(1)), DEFAULT_REGISTRY_URL)]])

\* The project starts without a lock file or with the earlier one.
ProjectInit ==
  /\ regCur = [c \in Components |-> 1]
  /\ files = [c \in Components |-> NoFile]
  /\ lockDisk \in {AbsentFile, EarlierLockFile}
  /\ edits = 0
  /\ lastWritten = [c \in Components |-> NotRecorded]
  /\ last = LastNone

NoCall == [fn |-> "none"]

\* No changelog file on disk.
AbsentChangelog ==
  [exists |-> FALSE, json |-> "object", component |-> "", currentVersion |-> 0,
   entries |-> << >>]

NoSnapshot ==
  [cmd |-> "none", version |-> 0, outcome |-> "", exitCode |-> 0,
   copied |-> FALSE, wroteChangelog |-> FALSE, changes |-> 0, breaking |-> FALSE]

SnapIdle ==
  /\ versionFiles = {}
  /\ changelogDisk = AbsentChangelog
  /\ snapLast = NoSnapshot

NoFetch ==
  [pc |-> "idle", url |-> << >>, attempt |-> 0, attempts |-> 0, waits |-> 0,
   errors |-> << >>, status |-> 0, result |-> "", thrown |-> ""]

FetchIdle == fetchRun = NoFetch

Init == ProjectInit /\ MergeIdle /\ call = NoCall /\ SnapIdle /\ FetchIdle

Next ==
  \E c \in Components :
    \/ Add(c)
    \/ Update(c)
    \/ Diff(c)
    \/ Release(c)
    \/ UserEdit(c)
    \/ UserDelete(c)
    \/ ExternalLockEdit

Spec == Init /\ [][Next]_vars

\* ------------------------------------------------- merge specification

SeqsUpTo(S, n) == UNION { [1..k -> S] : k \in 1..n }

\* Lines of the merge inputs: a and b are the base's lines, X is a line only
\* the user writes, Y a line only upstream writes. The user's file may hold
\* a marker line that an earlier conflicted update left behind.
BaseLines == {Txt("a"), Txt("b")}

LeftoverMarker == OursMarker([text |-> "your changes", ver |-> 0])

OursLines == BaseLines \cup {Txt("X"), LeftoverMarker}

TheirsLines == BaseLines \cup {Txt("Y")}

\* Edits of adjacent lines: the user rewrites line 2, upstream line 3.
AdjacentEdits ==
  << << Txt("a"), Txt("b"), Txt("c") >>,
     << Txt("a"), Txt("B"), Txt("c") >>,
     << Txt("a"), Txt("b"), Txt("C") >> >>

\* Edits of the same line: both sides rewrite line 2.
SameLineEdits ==
  << << Txt("a"), Txt("b"), Txt("c") >>,
     << Txt("a"), Txt("X"), Txt("c") >>,
     << Txt("a"), Txt("Y"), Txt("c") >> >>

MergeInputs ==
  (SeqsUpTo(BaseLines, MaxLines) \X SeqsUpTo(OursLines, MaxLines)
     \X SeqsUpTo(TheirsLines, MaxLines))
    \cup {AdjacentEdits, SameLineEdits}

LabelChoices == {NoLabels, UpdateLabels(2)}

MergeInit ==
  /\ CmdInit
  /\ \E t \in MergeInputs : mBase = t[1] /\ mOurs = t[2] /\ mTheirs = t[3]
  /\ mLabels = NoLabels
  /\ mResult = NoMerge
  /\ mDone = FALSE
  /\ call = NoCall
  /\ SnapIdle
  /\ FetchIdle

DoMerge ==
  /\ ~mDone
  /\ \E labels \in LabelChoices :
       /\ mLabels' = labels
       /\ mResult' = ThreeWayMerge(mBase, mOurs, mTheirs, labels.ours, labels.theirs)
  /\ mDone' = TRUE
  /\ UNCHANGED << mBase, mOurs, mTheirs, cmdVars, toolVars >>

MergeNext == DoMerge

MergeSpec == MergeInit /\ [][MergeNext]_vars

\* ------------------------------------------------ library specification

\* Longest file text given to computeChecksum, in lines.
MaxTextLines == 2

\* File texts whose lines end in LF or in CRLF.
TextLines == {Txt("a"), TxtCR("a"), Txt("b"), TxtCR("b")}

FileTexts == SeqsUpTo(TextLines, MaxTextLines)

\* computeChecksum of two files, and compareChecksums of the first with itself.
CallComputeChecksum ==
  /\ call = NoCall
  /\ \E c1 \in FileTexts, c2 \in FileTexts :
       call' = [fn |-> "computeChecksum", content |-> c1, other |-> c2,
                checksum |-> ComputeChecksum(c1),
                otherChecksum |-> ComputeChecksum(c2),
                matches |-> CompareChecksums(ComputeChecksum(c1), ComputeChecksum(c1))]
  /\ UNCHANGED << cmdVars, mergeVars, snapVars, fetchRun >>

\* Component names a store may hold, and names a caller may ask for.
StoreNames == {"button", "card"}

LookupNames == StoreNames \cup {"constructor"}

Entries ==
  { AddEntry(v, ComputeChecksum(UpstreamCode(v)), DEFAULT_REGISTRY_URL) : v \in 1..2 }

Stores ==
  { [version |-> LOCK_FILE_VERSION, components |-> f] :
      f \in UNION { [S -> Entries] : S \in SUBSET StoreNames } }

\* updateComponentEntry builds its result from object literals: the caller's
\* store is left as it was.
CallUpdateComponentEntry ==
  /\ call = NoCall
  /\ \E store \in Stores, name \in StoreNames, entry \in Entries :
       call' = [fn |-> "updateComponentEntry", store |-> store, name |-> name,
                entry |-> entry, storeAfter |-> store,
                returned |-> UpdateComponentEntry(store, name, entry)]
  /\ UNCHANGED << cmdVars, mergeVars, snapVars, fetchRun >>

\* removeComponentEntry, once and again on its own result.
CallRemoveComponentEntry ==
  /\ call = NoCall
  /\ \E store \in Stores, name \in LookupNames :
       call' = [fn |-> "removeComponentEntry", store |-> store, name |-> name,
                storeAfter |-> store,
                returned |-> RemoveComponentEntry(store, name),
                again |-> RemoveComponentEntry(RemoveComponentEntry(store, name), name)]
  /\ UNCHANGED << cmdVars, mergeVars, snapVars, fetchRun >>

\* isComponentTracked and getComponentEntry of the same store and name.
CallLookup ==
  /\ call = NoCall
  /\ \E store \in Stores, name \in LookupNames :
       call' = [fn |-> "lookup", store |-> store, name |-> name,
                tracked |-> IsComponentTracked(store, name),
                got |-> GetComponentEntry(store, name)]
  /\ UNCHANGED << cmdVars, mergeVars, snapVars, fetchRun >>

\* Lines for the totality of threeWayMerge: an ordinary line and a line that
\* is the name of a property every plain object inherits.
KeyLines == {Txt("a"), Txt("constructor")}

KeyTexts == SeqsUpTo(KeyLines, MaxTextLines)

\* diff3Merge indexes the lines of buffer2 in a plain object
\* (equivalenceClasses[item]): a line that names an inherited property finds
\* that property instead of a list, and the push on it raises a TypeError.
RaisesInLcs(buffer2) ==
  \E k \in DOMAIN buffer2 :
    /\ buffer2[k].kind = "text"
    /\ ~buffer2[k].cr
    /\ buffer2[k].text \in ObjectPrototypeKeys

\* buffer2 is side a in the comparison of o with a and side b in that of o
\* with b.
Diff3MergeRaises(a, o, b) == RaisesInLcs(a) \/ RaisesInLcs(b)

\* threeWayMerge has no try: what diff3Merge raises, it raises.
CallThreeWayMerge ==
  /\ call = NoCall
  /\ \E base \in KeyTexts, ours \in KeyTexts, theirs \in KeyTexts :
       call' = [fn |-> "threeWayMerge", base |-> base, ours |-> ours, theirs |-> theirs,
                raised |-> Diff3MergeRaises(ours, base, theirs),
                result |-> IF Diff3MergeRaises(ours, base, theirs) THEN NoMerge
                           ELSE ThreeWayMerge(base, ours, theirs, NoLabel, NoLabel)]
  /\ UNCHANGED << cmdVars, mergeVars, snapVars, fetchRun >>

\* Most entries of a changelog.
MaxEntries == 3

\* A changelog entry of the k-th release; version 0 stands for a version
\* string that no entry has.
ChangelogEntry(k) == [version |-> k, changes |-> << k >>]

\* Changelogs, newest release first.
Changelogs ==
  { [k \in DOMAIN s |-> ChangelogEntry(s[k])] :
      s \in { t \in UNION { [1..n -> 1..MaxEntries] : n \in 0..MaxEntries } :
               \A k \in 1..(Len(t) - 1) : t[k] > t[k + 1] } }

\* entries.findIndex((e) => e.version === version): 0-based, -1 if none.
FindIndex(entries, version) ==
  IF \E k \in DOMAIN entries : entries[k].version = version
  THEN (CHOOSE k \in DOMAIN entries :
          /\ entries[k].version = version
          /\ \A j \in 1..(k - 1) : entries[j].version # version) - 1
  ELSE -1

\* Array.prototype.reverse.
Reverse(seq) == [k \in 1..Len(seq) |-> seq[Len(seq) + 1 - k]]

\* A faulty resolver that slices from the first version's index to the
\* second's, whatever their order.
DirectedRange(entries, fromVersion, toVersion) ==
  IF FindIndex(entries, fromVersion) = -1 \/ FindIndex(entries, toVersion) = -1
  THEN << >>
  ELSE Reverse(Slice(entries, FindIndex(entries, fromVersion),
                     FindIndex(entries, toVersion) + 1))

\* A faulty range resolver that forgets the reverse.
NewestFirstRange(entries, fromVersion, toVersion) ==
  IF FindIndex(entries, fromVersion) = -1 \/ FindIndex(entries, toVersion) = -1
  THEN << >>
  ELSE Slice(entries,
             Min2(FindIndex(entries, fromVersion), FindIndex(entries, toVersion)),
             Max2(FindIndex(entries, fromVersion), FindIndex(entries, toVersion)) + 1)

\* getEntriesBetweenVersions of the diff command.
GetEntriesBetweenVersions(entries, fromVersion, toVersion) ==
  LET fromIndex == FindIndex(entries, fromVersion)
      toIndex == FindIndex(entries, toVersion)
  IN IF fromIndex = -1 \/ toIndex = -1 THEN << >>
     ELSE Reverse(Slice(entries, Min2(fromIndex, toIndex), Max2(fromIndex, toIndex) + 1))

\* filterEntriesBetweenVersions of the formatter.
FilterEntriesBetweenVersions(entries, fromVersion, toVersion) ==
  LET fromIndex == FindIndex(entries, fromVersion)
      toIndex == FindIndex(entries, toVersion)
      start == Min2(fromIndex, toIndex)
      end == Max2(fromIndex, toIndex)
  IN IF fromIndex = -1 \/ toIndex = -1 THEN << >>
     ELSE Reverse(Slice(entries, start, end + 1))

\* Both resolvers on the same changelog and versions; slice copies, so the
\* reverse acts on the copy and the caller's list stays as it was.
CallEntriesBetween ==
  /\ call = NoCall
  /\ \E entries \in Changelogs, fromVersion \in 0..MaxEntries, toVersion \in 0..MaxEntries :
       call' = [fn |-> "entriesBetween", entries |-> entries,
                fromVersion |-> fromVersion, toVersion |-> toVersion,
                entriesAfter |-> entries,
                fromDiff |-> GetEntriesBetweenVersions(entries, fromVersion, toVersion),
                fromFormatter |-> FilterEntriesBetweenVersions(entries, fromVersion, toVersion)]
  /\ UNCHANGED << cmdVars, mergeVars, snapVars, fetchRun >>

\* Entry lists in any order, a version more than once included.
EntryLists ==
  { [k \in DOMAIN s |-> ChangelogEntry(s[k])] :
      s \in UNION { [1..n -> 1..MaxEntries] : n \in 0..MaxEntries } }

\* Each resolver asked for the range of two versions and for the range of
\* the same versions exchanged.
CallEntriesBothWays ==
  /\ call = NoCall
  /\ \E entries \in EntryLists, a \in 0..MaxEntries, b \in 0..MaxEntries :
       call' = [fn |-> "entriesBothWays", entries |-> entries, a |-> a, b |-> b,
                diffForth |-> GetEntriesBetweenVersions(entries, a, b),
                diffBack |-> GetEntriesBetweenVersions(entries, b, a),
                formatterForth |-> FilterEntriesBetweenVersions(entries, a, b),
                formatterBack |-> FilterEntriesBetweenVersions(entries, b, a)]
  /\ UNCHANGED << cmdVars, mergeVars, snapVars, fetchRun >>

\* meta.versioning.currentVersion as a registry may serve it: releases 1
\* and 2, and 0 for a string that is not of the form D.D.D, such as
\* "2.0.0-beta.1" or "2.0".
ServedVersions == 0..2

\* The lock file addCommand (steps 5 to 7) or updateCommand (step 8) writes
\* for component c from the store it read and the served currentVersion.
WrittenLockFile(cmd, store, c, served, registryOpt) ==
  StoreFile(UpdateComponentEntry(store, c,
    IF cmd = "add"
    THEN AddEntry(served, ComputeChecksum(UpstreamCode(served)),
                  ResolveRegistryUrl(registryOpt))
    ELSE UpdatedEntry(store.components[c], served,
                      ComputeChecksum(UpstreamCode(served)))))

\* A command writes the lock file and the next command reads it.
WriteThenRead(cmd, c, served, written) ==
  [fn |-> "writeThenRead", cmd |-> cmd, name |-> c, served |-> served,
   written |-> written, readBack |-> ReadLockFile(written).kind]

CallWriteThenRead ==
  /\ call = NoCall
  /\ \E cmd \in {"add", "update"}, store \in Stores, c \in StoreNames,
        served \in ServedVersions, registryOpt \in RegistryOptions :
       /\ cmd = "update" =>
            /\ c \in DOMAIN store.components
            /\ store.components[c].installedVersion # served
            /\ registryOpt = ""
       /\ call' = WriteThenRead(cmd, c, served,
                                 WrittenLockFile(cmd, store, c, served, registryOpt))
  /\ UNCHANGED << cmdVars, mergeVars, snapVars, fetchRun >>

LibInit == CmdInit /\ MergeIdle /\ call = NoCall /\ SnapIdle /\ FetchIdle

LibNext ==
  \/ CallComputeChecksum
  \/ CallUpdateComponentEntry
  \/ CallRemoveComponentEntry
  \/ CallLookup
  \/ CallThreeWayMerge
  \/ CallEntriesBetween
  \/ CallEntriesBothWays
  \/ CallWriteThenRead

LibSpec == LibInit /\ [][LibNext]_vars

\* ----------------------------------------------- snapshot specification

\* Versions given to snapshotCommand: 1..MaxSnapVersion in semver order, and
\* 0 for an argument that is not of the form D.D.D.
MaxSnapVersion == 3

\* Most changes entered at the prompts of one run.
MaxChanges == 2

\* `/^\d+\.\d+\.\d+$/.test(version)`
VersionFormatOk(version) == version >= 1

\* The entry of step 9; `breaking` is there only when it is true.
NewEntry(version, changes, breaking) ==
  [version |-> version, date |-> "iso8601", changes |-> changes, breaking |-> breaking]

\* changelogEntrySchema
ChangelogEntrySchemaOk(e) ==
  /\ VersionFormatOk(e.version)
  /\ IsoDateOk(e.date)
  /\ e.changes >= 1

\* componentChangelogSchema
ComponentChangelogSchemaOk(changelog) ==
  /\ changelog.component # ""
  /\ VersionFormatOk(changelog.currentVersion)
  /\ Len(changelog.entries) >= 1
  /\ \A k \in DOMAIN changelog.entries : ChangelogEntrySchemaOk(changelog.entries[k])

ChangelogFile(changelog) ==
  [exists |-> TRUE, json |-> "object", component |-> changelog.component,
   currentVersion |-> changelog.currentVersion, entries |-> changelog.entries]

\* readJsonFile<ComponentChangelog>(changelogFile): null when the file is
\* missing or is not JSON; a falsy JSON value is taken for null by
\* `if (!changelog)`.
ReadChangelogIsNull(raw) ==
  ~raw.exists \/ ReadJsonFileIsNull(raw) \/ raw.json = "falsy"

\* Step 8: the changelog read, or a new one.
ChangelogOrNew(raw, component, version) ==
  IF ReadChangelogIsNull(raw)
  THEN [component |-> component, currentVersion |-> version, entries |-> << >>]
  ELSE [component |-> raw.component, currentVersion |-> raw.currentVersion,
        entries |-> raw.entries]

\* A faulty step 9 that puts the new entry last.
PushEntry(entries, newEntry) == entries \o << newEntry >>

\* changelog.entries.unshift(newEntry)
Unshift(entries, newEntry) == << newEntry >> \o entries

\* Steps 9 to 11 on the changelog of step 8: the changelog with the new
\* entry, validated and written, or the exit of a failed validation.
AppendAndWrite(from, changelog, version) ==
  IF ComponentChangelogSchemaOk(changelog)
  THEN [from EXCEPT !.outcome = "done", !.exitCode = 0,
                    !.changelog = ChangelogFile(changelog), !.wroteChangelog = TRUE]
  ELSE [from EXCEPT !.outcome = "exit_invalid"]

\* One run of snapshotCommand(component, version): the component file is
\* there or not, the first prompts give `changes` changes and then either
\* stop or are cancelled, and the last prompt says breaking or not.
SnapshotRun(component, version, componentExists, changes, cancelled, breaking) ==
  LET stop == [outcome |-> "", exitCode |-> 1, versions |-> versionFiles,
               changelog |-> changelogDisk, copied |-> FALSE,
               wroteChangelog |-> FALSE, changes |-> 0, breaking |-> FALSE]
      copied == [stop EXCEPT !.versions = versionFiles \cup {version},
                             !.copied = TRUE]
      asked == [copied EXCEPT !.changes = changes, !.breaking = breaking]
  IN IF ~componentExists THEN [stop EXCEPT !.outcome = "exit_nocomponent"]
     ELSE IF ~VersionFormatOk(version) THEN [stop EXCEPT !.outcome = "exit_badversion"]
     ELSE IF version \in versionFiles THEN [stop EXCEPT !.outcome = "exit_exists"]
     ELSE IF cancelled
          THEN [copied EXCEPT !.outcome = "exit_cancelled", !.changes = changes]
     ELSE IF ~ReadChangelogIsNull(changelogDisk) /\ changelogDisk.json = "noentries"
          THEN [asked EXCEPT !.outcome = "error_unshift"]
     ELSE AppendAndWrite(asked,
            [ChangelogOrNew(changelogDisk, component, version) EXCEPT
               !.entries = Unshift(@, NewEntry(version, changes, breaking)),
               !.currentVersion = version],
            version)

\* The effect of one run r of snapshotCommand on the disk.
SnapshotEffect(version, r) ==
  /\ versionFiles' = r.versions
  /\ changelogDisk' = r.changelog
  /\ snapLast' = [cmd |-> "snapshot", version |-> version, outcome |-> r.outcome,
                  exitCode |-> r.exitCode, copied |-> r.copied,
                  wroteChangelog |-> r.wroteChangelog, changes |-> r.changes,
                  breaking |-> r.breaking]
  /\ UNCHANGED << cmdVars, mergeVars, call, fetchRun >>

\* The run gets as far as the prompts.
ReachesPrompts(version, componentExists) ==
  componentExists /\ VersionFormatOk(version) /\ version \notin versionFiles

Snapshot(component) ==
  \E version \in 0..MaxSnapVersion, componentExists \in BOOLEAN :
   \E cancelled \in IF ReachesPrompts(version, componentExists) THEN BOOLEAN ELSE {FALSE} :
    \E changes \in IF ReachesPrompts(version, componentExists)
                    THEN (IF cancelled THEN 0..(MaxChanges - 1) ELSE 1..MaxChanges)
                    ELSE {0},
       breaking \in IF ReachesPrompts(version, componentExists) /\ ~cancelled
                    THEN BOOLEAN ELSE {FALSE} :
     SnapshotEffect(version,
       SnapshotRun(component, version, componentExists, changes, cancelled, breaking))

\* What an edit outside the CLI (by hand, or a merge of two branches) can
\* leave in the changelog file: text that is not JSON, JSON null, an
\* object without entries, an entry whose date is not a datetime. The
\* entries written so far are still in the text.
ChangelogDamage(raw) ==
  { [raw EXCEPT !.json = "garbage"],
    [raw EXCEPT !.json = "falsy", !.entries = << >>],
    [raw EXCEPT !.json = "noentries", !.entries = << >>],
    [raw EXCEPT !.entries[1].date = "2024-01-01"] }

ChangelogEdit ==
  /\ changelogDisk.exists
  /\ changelogDisk.json = "object"
  /\ \E damaged \in ChangelogDamage(changelogDisk) :
       /\ damaged # changelogDisk
       /\ changelogDisk' = damaged
  /\ snapLast' = [NoSnapshot EXCEPT !.cmd = "edit"]
  /\ UNCHANGED << versionFiles, cmdVars, mergeVars, call, fetchRun >>

SnapInit == CmdInit /\ MergeIdle /\ call = NoCall /\ SnapIdle /\ FetchIdle

SnapNext ==
  \/ Snapshot("button")
  \/ ChangelogEdit

SnapSpec == SnapInit /\ [][SnapNext]_vars

\* ------------------------------------------------- fetchRegistryItem calls
\* diff.ts 441-467 and 587-614.  One call of fetchRegistryItem at a time; the
\* network decides how each fetch() settles.  fetchRun.attempts counts the
\* fetch() calls made, fetchRun.waits the 2 s pauses, fetchRun.errors the
\* errors caught, in order.

MaxRetries == 1

FetchComponents == {"button", "card"}

FetchRegistries == {DEFAULT_REGISTRY_URL, LocalRegistryUrl}

FetchErrors == {"fetch failed", "terminated", "aborted"}

FetchStatuses == {200, 404, 500}

FetchBodies == {"json", "notjson"}

RegistryItemUrl(registryUrl, componentName) == << registryUrl, "/", componentName, ".json" >>

LoopRunsOnceMore(attempt, maxRetries) == attempt <= maxRetries + 1

LoopContinues(attempt, maxRetries) == attempt <= maxRetries

WaitsBeforeRetry(attempt, maxRetries) == attempt < maxRetries

LastError(errors) == IF errors = << >> THEN "Fetch failed" ELSE errors[Len(errors)]

ResponseOk(status) == status >= 200 /\ status <= 299

IncludesFetchFailed(message) == message = "fetch failed"

FetchRegistryItemCall(componentName, registryUrl) ==
  /\ fetchRun.pc = "idle"
  /\ fetchRun' = [fetchRun EXCEPT !.pc = "loop",
                                  !.url = RegistryItemUrl(registryUrl, componentName),
                                  !.attempt = 0]
  /\ UNCHANGED << cmdVars, mergeVars, call, snapVars >>

FetchLoopTest ==
  /\ fetchRun.pc = "loop"
  /\ fetchRun' = IF LoopContinues(fetchRun.attempt, MaxRetries)
                   THEN [fetchRun EXCEPT !.pc = "fetching", !.attempts = @ + 1]
                   ELSE [fetchRun EXCEPT !.pc = "threw", !.thrown = LastError(fetchRun.errors)]
  /\ UNCHANGED << cmdVars, mergeVars, call, snapVars >>

FetchResolves ==
  /\ fetchRun.pc = "fetching"
  /\ \E status \in FetchStatuses :
       fetchRun' = [fetchRun EXCEPT !.pc = "returned", !.status = status]
  /\ UNCHANGED << cmdVars, mergeVars, call, snapVars >>

FetchRejects ==
  /\ fetchRun.pc = "fetching"
  /\ \E error \in FetchErrors :
       fetchRun' = IF WaitsBeforeRetry(fetchRun.attempt, MaxRetries)
                     THEN [fetchRun EXCEPT !.pc = "waiting",
                                           !.errors = Append(@, error),
                                           !.waits = @ + 1]
                     ELSE [fetchRun EXCEPT !.pc = "loop",
                                           !.errors = Append(@, error),
                                           !.attempt = @ + 1]
  /\ UNCHANGED << cmdVars, mergeVars, call, snapVars >>

FetchTimerFires ==
  /\ fetchRun.pc = "waiting"
  /\ fetchRun' = [fetchRun EXCEPT !.pc = "loop", !.attempt = @ + 1]
  /\ UNCHANGED << cmdVars, mergeVars, call, snapVars >>

FetchItemFromResponse ==
  /\ fetchRun.pc = "returned"
  /\ \E body \in FetchBodies :
       fetchRun' =
         IF ~ResponseOk(fetchRun.status)
           THEN IF fetchRun.status = 404
                  THEN [fetchRun EXCEPT !.pc = "done", !.result = "null"]
                  ELSE [fetchRun EXCEPT !.pc = "done", !.thrown = "HTTP status"]
           ELSE IF body = "json"
                  THEN [fetchRun EXCEPT !.pc = "done", !.result = "item"]
                  ELSE [fetchRun EXCEPT !.pc = "done", !.thrown = "SyntaxError"]
  /\ UNCHANGED << cmdVars, mergeVars, call, snapVars >>

FetchItemFromError ==
  /\ fetchRun.pc = "threw"
  /\ fetchRun' = [fetchRun EXCEPT !.pc = "done",
                                  !.thrown = IF IncludesFetchFailed(@)
                                               THEN "Failed to fetch registry data"
                                               ELSE @]
  /\ UNCHANGED << cmdVars, mergeVars, call, snapVars >>

FetchSettles ==
  \/ FetchResolves
  \/ FetchRejects

FetchProgress ==
  \/ FetchLoopTest
  \/ FetchSettles
  \/ FetchTimerFires
  \/ FetchItemFromResponse
  \/ FetchItemFromError

FetchInit == CmdInit /\ MergeIdle /\ call = NoCall /\ SnapIdle /\ FetchIdle

FetchNext ==
  \/ \E componentName \in FetchComponents, registryUrl \in FetchRegistries :
       FetchRegistryItemCall(componentName, registryUrl)
  \/ FetchLoopTest
  \/ FetchResolves
  \/ FetchRejects
  \/ FetchTimerFires
  \/ FetchItemFromResponse
  \/ FetchItemFromError

\* Fairness: the event loop of Node runs every continuation that is ready,
\* a started fetch() settles (undici bounds connecting and waiting for the
\* response headers), and the 2 s timer fires.
FetchSpec == FetchInit /\ [][FetchNext]_vars /\ WF_vars(FetchProgress)

\* ------------------------------------------------------------- properties

Range(seq) == { seq[k] : k \in DOMAIN seq }

CommandNames == {"add", "update", "diff"}

\* The lock file loads as a store that tracks c.
TrackedOnDisk(c) ==
  /\ ReadLockFile(lockDisk).kind = "store"
  /\ IsComponentTracked(ReadLockFile(lockDisk).store, c)

\* C1: after any sequence of add, update and user edits, every tracked
\* component's recorded checksum is the checksum of the content that the
\* last successful install / update of it wrote; an add that runs the
\* installer and stops at "already tracked" leaves no older record behind.
C1_RecordDescribesLastWrite ==
  \A c \in Components :
    (TrackedOnDisk(c) /\ lastWritten[c].valid)
      => RecordedChecksum(c) = ComputeChecksum(lastWritten[c].content)

\* C2: edits of adjacent lines merge automatically: for base a/b/c, ours
\* a/B/c and theirs a/b/C the merge succeeds without conflicts and returns
\* a/B/C.
C2_AdjacentEditsMergeCleanly ==
  (mDone /\ << mBase, mOurs, mTheirs >> = AdjacentEdits)
    => /\ mResult.success
       /\ mResult.conflictCount = 0
       /\ mResult.content = << Txt("a"), Txt("B"), Txt("C") >>

MarkerFree(seq) == \A k \in DOMAIN seq : seq[k].kind = "text"

IsMarker(line) == line.kind # "text"

\* The marker lines of a content form whole blocks: ours, separator, theirs.
WellMarked(content) ==
  LET ms == SelectSeq(content, IsMarker)
  IN /\ Len(ms) % 3 = 0
     /\ \A k \in DOMAIN ms :
          ms[k].kind = << "ours", "sep", "theirs" >>[((k - 1) % 3) + 1]

\* The kind of the last marker line above position p, "none" if there is none.
LastMarkerBefore(content, p) ==
  LET above == { q \in 1..(p - 1) : IsMarker(content[q]) }
  IN IF above = {} THEN "none"
     ELSE content[CHOOSE q \in above : \A q2 \in above : q2 <= q].kind

\* Line l stands in content outside the region of the other side, whose
\* opening marker is of kind `other`.
KeptOutside(content, l, other) ==
  \E p \in DOMAIN content :
    content[p] = l /\ LastMarkerBefore(content, p) # other

\* C3: threeWayMerge drops no change: every line that ours or theirs has
\* and base has not is in the returned content, and for inputs without
\* marker lines it stands in a merged region or on its own side of a
\* conflict, and the content is made of merged regions and whole marked
\* conflicts, as many as conflictCount.
C3_NoChangeDropped ==
  mDone =>
    /\ \A l \in Range(mOurs) \ Range(mBase) : l \in Range(mResult.content)
    /\ \A l \in Range(mTheirs) \ Range(mBase) : l \in Range(mResult.content)
    /\ (MarkerFree(mOurs) /\ MarkerFree(mTheirs)) =>
         /\ WellMarked(mResult.content)
         /\ Len(SelectSeq(mResult.content, IsMarker)) = 3 * mResult.conflictCount
         /\ \A l \in Range(mOurs) \ Range(mBase) :
              KeptOutside(mResult.content, l, "sep")
         /\ \A l \in Range(mTheirs) \ Range(mBase) :
              KeptOutside(mResult.content, l, "ours")

\* A merge of both sides' rewrites of one stretch has run and ended in a
\* conflict.
C3_Witness ==
  /\ mDone
  /\ mResult.conflictCount > 0
  /\ Txt("X") \in Range(mOurs)
  /\ Txt("Y") \in Range(mTheirs)
  /\ MarkerFree(mOurs)

\* C4: for all inputs, also those holding marker lines of an earlier
\* conflicted update, a result with conflictCount > 0 has exactly
\* conflictCount occurrences of "<<<<<<<" and of ">>>>>>>".
C4_MarkersMatchConflictCount ==
  (mDone /\ mResult.conflictCount > 0)
    => /\ CountConflicts(mResult.content) = mResult.conflictCount
       /\ CountTheirsMarks(mResult.content) = mResult.conflictCount

\* The lock file is on disk and does not load as a store.
LockPresentUnloadable ==
  lockDisk.exists /\ ReadLockFile(lockDisk).kind # "store"

\* C5: no add, update or diff run replaces or rewrites a lock file that is
\* present and does not load as a valid store; the file stays as it is and
\* a run that reads it reports the corruption.
C5_CorruptLockLeftAlone ==
  [][(LockPresentUnloadable /\ last'.cmd \in CommandNames)
       => /\ lockDisk' = lockDisk
          /\ last'.lockRead # "" => last'.lockRead \in {"throw", "corrupt_warned"}]_vars

\* C6: readLockFile answers "not found" only when no lock file exists; a
\* file that is present and is no valid store makes it fail with the
\* corrupt-lock-file error.
C6_NotFoundOnlyWhenAbsent ==
  (last.cmd = "update" /\ last.lockRead # "")
    => /\ last.lockRead = "null" => ~lockDisk.exists
       /\ LockPresentUnloadable => last.lockRead = "throw"

\* The update run took the merge strategy on a modified file and got no base.
MergeWithoutBase(l) ==
  /\ l.cmd = "update"
  /\ l.strategy = "merge"
  /\ l.isModified
  /\ ~l.baseAvailable

\* C7: when the merge strategy runs on a modified file and the base cannot
\* be obtained, threeWayMerge is not invoked, the component file and the
\* lock file change only after the user confirmed the overwrite, and both
\* stay as they are when the confirmation is declined or dismissed.
C7_FallbackNeedsConfirmation ==
  [][MergeWithoutBase(last')
       => /\ ~last'.mergeCalled
          /\ (files' # files \/ lockDisk' # lockDisk) => last'.confirm = "yes"
          /\ last'.confirm # "yes" => (files' = files /\ lockDisk' = lockDisk)]_vars

\* An update without a base was declined at the confirmation.
C7_Witness ==
  /\ MergeWithoutBase(last)
  /\ last.outcome = "fallback_declined"
  /\ last.confirm \in {"no", "dismissed"}

\* C8: when the merge of an update leaves conflicts, the merged content
\* with its markers is written to the component file, the record moves to
\* the latest version with the checksum of that content, and the command
\* ends normally.
C8_ConflictedMergeIsWritten ==
  (last.cmd = "update" /\ last.mergeCalled /\ last.mergeResult.conflictCount > 0)
    => /\ files[last.comp] = FileOf(last.mergeResult.content)
       /\ CountConflicts(files[last.comp].content) > 0
       /\ TrackedOnDisk(last.comp)
       /\ ReadLockFile(lockDisk).store.components[last.comp].installedVersion
            = regCur[last.comp]
       /\ RecordedChecksum(last.comp) = ComputeChecksum(last.mergeResult.content)
       /\ last.outcome = "updated_conflicts"
       /\ last.exitCode = 0

\* An update has merged and left a conflict.
C8_Witness ==
  /\ last.cmd = "update"
  /\ last.mergeCalled
  /\ last.mergeResult.conflictCount > 0
  /\ last.wroteFile

\* C9: whenever updateCommand calls threeWayMerge, base is the content on
\* record from the last install / update (its checksum is the record's),
\* ours is the file on disk and theirs the registry's latest content.
C9_BaseIsRecordedContent ==
  [][(last'.cmd = "update" /\ last'.mergeCalled)
       => /\ ComputeChecksum(last'.base) = RecordedChecksum(last'.comp)
          /\ last'.ours = files[last'.comp].content
          /\ last'.theirs = ExtractComponentCode(regCur[last'.comp])]_vars

\* The run computed the modified flag of a tracked component.
ComputedModified(l) ==
  /\ l.cmd \in {"update", "diff"}
  /\ l.tracked
  /\ l.outcome \notin {"exit_notfound", "exit_noversioning", "exit_nofile"}

\* C10: for a tracked component, the modified flag of update and of diff is
\* true exactly when the recorded checksum differs from the checksum of the
\* current file content, and a file nobody edited since the last install /
\* update is never reported as modified.
C10_ModifiedIffChecksumDiffers ==
  [][(ComputedModified(last') /\ files[last'.comp].exists)
       => /\ last'.isModified
               <=> (RecordedChecksum(last'.comp)
                      # ComputeChecksum(files[last'.comp].content))
          /\ (/\ lastWritten[last'.comp].valid
              /\ files[last'.comp].content = lastWritten[last'.comp].content)
               => ~last'.isModified]_vars

\* Text c with every CRLF replaced by LF: only a line that another line
\* follows ends in a line feed.
CrlfToLf(c) ==
  [k \in DOMAIN c |-> IF k < Len(c) /\ c[k].cr THEN Txt(c[k].text) ELSE c[k]]

C12_UpsertIsPure ==
  call.fn = "updateComponentEntry" =>
    /\ DOMAIN call.returned.components = DOMAIN call.store.components \cup {call.name}
    /\ call.returned.components[call.name] = call.entry
    /\ \A c \in DOMAIN call.store.components \ {call.name} :
         call.returned.components[c] = call.store.components[c]
    /\ call.returned.version = call.store.version
    /\ call.storeAfter = call.store

\* A record was replaced in a store that tracks another component too.
C12_Witness ==
  /\ call.fn = "updateComponentEntry"
  /\ DOMAIN call.store.components = StoreNames
  /\ call.store.components[call.name] # call.entry

\* C13: removeComponentEntry returns a store without the name and with every
\* other record unchanged; for an absent name the result equals the input;
\* the caller's store is left as it was and a second removal changes nothing.
C13_RemoveDropsOnlyTheName ==
  call.fn = "removeComponentEntry" =>
    /\ DOMAIN call.returned.components = DOMAIN call.store.components \ {call.name}
    /\ \A c \in DOMAIN call.returned.components :
         call.returned.components[c] = call.store.components[c]
    /\ call.returned.version = call.store.version
    /\ call.name \notin DOMAIN call.store.components => call.returned = call.store
    /\ call.storeAfter = call.store
    /\ call.again = call.returned

\* A tracked name was removed from a store that tracks another component too.
C13_Witness ==
  /\ call.fn = "removeComponentEntry"
  /\ DOMAIN call.store.components = StoreNames
  /\ call.name \in StoreNames

\* C14: isComponentTracked is true exactly when the name is a key of
\* store.components, and exactly then getComponentEntry returns that key's
\* record; for an absent key isComponentTracked is false and
\* getComponentEntry returns null.
C14_TrackedIffKey ==
  call.fn = "lookup" =>
    /\ call.tracked <=> call.name \in DOMAIN call.store.components
    /\ call.name \in DOMAIN call.store.components
         => call.got = [kind |-> "entry", entry |-> call.store.components[call.name]]
    /\ call.name \notin DOMAIN call.store.components
         => call.got = [kind |-> "null"]

C17_SameLineEditsConflict ==
  (mDone /\ << mBase, mOurs, mTheirs >> = SameLineEdits)
    => /\ ~mResult.success
       /\ mResult.conflictCount = 1
       /\ Len(mResult.content) = 7
       /\ mResult.content[1] = Txt("a")
       /\ mResult.content[2].kind = "ours"
       /\ mResult.content[3] = Txt("X")
       /\ mResult.content[4] = SepMarker
       /\ mResult.content[5] = Txt("Y")
       /\ mResult.content[6].kind = "theirs"
       /\ mResult.content[7] = Txt("c")

\* The merge of the two rewrites of line 2 has run.
C17_Witness ==
  /\ mDone
  /\ << mBase, mOurs, mTheirs >> = SameLineEdits
  /\ mResult.conflictCount = 1
  /\ mLabels = UpdateLabels(2)

\* The labels the merge is said to fall back to.
SaidOursLabel(labels) ==
  IF labels.ours = NoLabel THEN [text |-> "your changes", ver |-> 0] ELSE labels.ours

SaidTheirsLabel(labels) ==
  IF labels.theirs = NoLabel THEN [text |-> "theirs (upstream)", ver |-> 0]
  ELSE labels.theirs

\* C19: each conflict region is the ours marker line with the ours label,
\* the ours lines, the separator line, the theirs lines and the theirs
\* marker line with the theirs label, in this order; without labels from
\* the caller the ours label is "your changes" and the theirs label is
\* "theirs (upstream)".
C19_ConflictRegionLayout ==
  (mDone /\ mResult.conflictCount > 0 /\ MarkerFree(mOurs) /\ MarkerFree(mTheirs))
    => /\ WellMarked(mResult.content)
       /\ \A k \in DOMAIN mResult.content :
            /\ mResult.content[k].kind = "ours"
                 => mResult.content[k] = OursMarker(SaidOursLabel(mLabels))
            /\ mResult.content[k].kind = "theirs"
                 => mResult.content[k] = TheirsMarker(SaidTheirsLabel(mLabels))
       /\ \A k \in DOMAIN mResult.content :
            /\ (mResult.content[k].kind = "text"
                  /\ LastMarkerBefore(mResult.content, k) = "ours")
                 => mResult.content[k] \in Range(mOurs)
            /\ (mResult.content[k].kind = "text"
                  /\ LastMarkerBefore(mResult.content, k) = "sep")
                 => mResult.content[k] \in Range(mTheirs)

\* C18: threeWayMerge is total: for every base, ours and theirs it returns
\* a result and raises nothing, and success is true exactly when
\* conflictCount is 0.
C18_MergeIsTotal ==
  call.fn = "threeWayMerge" =>
    /\ ~call.raised
    /\ call.result.success <=> call.result.conflictCount = 0

\* The 1-based positions of the entries with a version.
PositionsOf(entries, version) ==
  { k \in DOMAIN entries : entries[k].version = version }

\* C20: the two range resolvers return the same sequence for every
\* newest-first changelog and pair of versions: the empty sequence when
\* fromVersion or toVersion matches no entry, otherwise the entries from the
\* smaller to the larger of the two positions, both included, oldest first;
\* the caller's list is left as it was.
C20_RangeResolversAgree ==
  call.fn = "entriesBetween" =>
    /\ call.fromDiff = call.fromFormatter
    /\ call.entriesAfter = call.entries
    /\ (PositionsOf(call.entries, call.fromVersion) = {}
          \/ PositionsOf(call.entries, call.toVersion) = {})
         => call.fromDiff = << >>
    /\ \A i \in PositionsOf(call.entries, call.fromVersion),
          j \in PositionsOf(call.entries, call.toVersion) :
         /\ Len(call.fromDiff) = Max2(i, j) - Min2(i, j) + 1
         /\ \A k \in DOMAIN call.fromDiff :
              call.fromDiff[k] = call.entries[Max2(i, j) + 1 - k]

\* The changelog 3, 2, 1 asked for the range from release 1 to release 3
\* gave 1, 2, 3.
C20_Witness ==
  /\ call.fn = "entriesBetween"
  /\ call.entries = << ChangelogEntry(3), ChangelogEntry(2), ChangelogEntry(1) >>
  /\ call.fromVersion = 1
  /\ call.toVersion = 3
  /\ call.fromDiff = << ChangelogEntry(1), ChangelogEntry(2), ChangelogEntry(3) >>

\* C21: range resolution does not depend on the direction: for every entry
\* list and versions a and b each resolver returns for (a, b) and for (b, a)
\* the same entries in the same order, the entry that sits later in the
\* list first.
C21_RangeIsDirectionIndependent ==
  call.fn = "entriesBothWays" =>
    /\ call.diffForth = call.diffBack
    /\ call.formatterForth = call.formatterBack
    /\ (call.diffForth # << >> /\ call.a # call.b) =>
         /\ call.diffForth[1].version \in {call.a, call.b}
         /\ call.diffForth[Len(call.diffForth)].version \in {call.a, call.b}
         /\ FindIndex(call.entries, call.diffForth[1].version)
              > FindIndex(call.entries, call.diffForth[Len(call.diffForth)].version)

\* The range was asked for from the newer version to the older one.
C21_Witness ==
  /\ call.fn = "entriesBothWays"
  /\ FindIndex(call.entries, call.a) # -1
  /\ FindIndex(call.entries, call.b) > FindIndex(call.entries, call.a)
  /\ Len(call.diffBack) > 1

\* The record of component c in the lock file on disk.
RecordedEntry(c) == ReadLockFile(lockDisk).store.components[c]

\* The component file holds a line the user wrote, so that its content
\* differs from the registry's content of the recorded installed version.
CarriesUserChanges(c) ==
  /\ TrackedOnDisk(c)
  /\ files[c].exists
  /\ Txt("X") \in Range(files[c].content)
  /\ files[c].content # UpstreamCode(RecordedEntry(c).installedVersion)

\* C26: updateCommand replaces content that carries user changes with plain
\* upstream content only in a run that detected the file as modified and
\* reached the overwrite through --force, the 'overwrite' choice or the
\* confirmed fallback for a missing base.
C26_UserChangesNeverSilentlyLost ==
  [][\A c \in Components :
       (/\ CarriesUserChanges(c)
        /\ last'.cmd = "update" /\ last'.comp = c
        /\ last'.wroteFile /\ ~last'.mergeCalled)
         => /\ last'.isModified
            /\ \/ last'.force
               \/ last'.strategy = "overwrite"
               \/ last'.confirm = "yes"]_vars

\* The recorded version is the registry's current version.
AtLatest(c) ==
  /\ TrackedOnDisk(c)
  /\ RecordedEntry(c).installedVersion = regCur[c]

\* C28: an updateCommand run that performs no update leaves the component
\* file and the lock file as they were: when the recorded version is
\* already the latest, modified file or not, when the strategy prompt is
\* cancelled or dismissed, and when the user chooses to see the diff.
C28_NoUpdateNoWrite ==
  [][\A c \in Components :
       (/\ last'.cmd = "update" /\ last'.comp = c
        /\ \/ AtLatest(c)
           \/ last'.strategy \in {"abort", "dismissed", "diff"})
         => /\ files' = files
            /\ lockDisk' = lockDisk]_vars

\* An update found a modified file at the latest version and returned.
C28_Witness ==
  /\ last.cmd = "update"
  /\ last.outcome = "already_latest"
  /\ last.isModified
  /\ \E c \in Components : files[c].exists /\ AtLatest(c)

\* C29: a successful updateCommand for a component changes only that
\* component's lock record: its installedVersion becomes the registry's
\* current version, its checksum the checksum of the content just written,
\* its registryUrl stays, and the records of all other components and the
\* store's version are written back unchanged.
C29_UpdateTouchesOneRecord ==
  [][\A c \in Components :
       (last'.cmd = "update" /\ last'.comp = c /\ last'.wroteLock)
         => /\ ReadLockFile(lockDisk').kind = "store"
            /\ ReadLockFile(lockDisk').store.version = ReadLockFile(lockDisk).store.version
            /\ DOMAIN ReadLockFile(lockDisk').store.components
                 = DOMAIN ReadLockFile(lockDisk).store.components
            /\ \A o \in DOMAIN ReadLockFile(lockDisk).store.components \ {c} :
                 ReadLockFile(lockDisk').store.components[o]
                   = ReadLockFile(lockDisk).store.components[o]
            /\ ReadLockFile(lockDisk').store.components[c].installedVersion = regCur[c]
            /\ ReadLockFile(lockDisk').store.components[c].checksum
                 = ComputeChecksum(files'[c].content)
            /\ ReadLockFile(lockDisk').store.components[c].registryUrl
                 = ReadLockFile(lockDisk).store.components[c].registryUrl]_vars

\* An update wrote the record of a component that was installed from the
\* local registry, in a store that tracks another component too.
C29_Witness ==
  /\ last.cmd = "update"
  /\ last.wroteLock
  /\ ReadLockFile(lockDisk).kind = "store"
  /\ ReadLockFile(lockDisk).store.version = "0.9"
  /\ DOMAIN ReadLockFile(lockDisk).store.components = {"button", "card"}
  /\ ReadLockFile(lockDisk).store.components["button"].registryUrl = LocalRegistryUrl

\* C27: every lock file that addCommand or updateCommand writes is accepted
\* by the next readLockFile, for every registry response and --registry
\* value under which the command writes: the written lock file never loads
\* as corrupted.
C27_WrittenLockLoads ==
  call.fn = "writeThenRead" => call.readBack = "store"

\* C22: after every snapshotCommand run that writes the changelog, the
\* changelog's currentVersion is the version of entries[0], and entries[0]
\* is the entry just made for the snapshotted version.
C22_CurrentVersionIsFirstEntry ==
  (snapLast.cmd = "snapshot" /\ snapLast.wroteChangelog)
    => /\ changelogDisk.exists
       /\ changelogDisk.json = "object"
       /\ changelogDisk.currentVersion = changelogDisk.entries[1].version
       /\ changelogDisk.currentVersion = snapLast.version
       /\ changelogDisk.entries[1]
            = NewEntry(snapLast.version, snapLast.changes, snapLast.breaking)

\* A run added an entry to a changelog that had entries already.
C22_Witness ==
  /\ snapLast.cmd = "snapshot"
  /\ snapLast.wroteChangelog
  /\ Len(changelogDisk.entries) >= 2

\* C23: after any sequence of snapshotCommand runs, in any order of the
\* version arguments, the persisted entries are newest first: their
\* versions descend strictly from first to last, so none appears twice.
C23_EntriesDescendStrictly ==
  (changelogDisk.exists /\ changelogDisk.json = "object")
    => \A k \in 1..(Len(changelogDisk.entries) - 1) :
         changelogDisk.entries[k].version > changelogDisk.entries[k + 1].version

\* C24: the changelog history is append-only: after a snapshotCommand run
\* the changelog file holds every entry it held before the run, unchanged
\* and in the same order, after the new entry if one was added; this also
\* when the file could not be read or parsed.
C24_HistoryIsAppendOnly ==
  [][snapLast'.cmd = "snapshot"
       => \/ changelogDisk'.entries = changelogDisk.entries
          \/ /\ Len(changelogDisk'.entries) = Len(changelogDisk.entries) + 1
             /\ Tail(changelogDisk'.entries) = changelogDisk.entries]_vars

\* C30: after any snapshotCommand run, completed, cancelled at a prompt or
\* failed at the validation, the snapshot file of a version exists exactly
\* when the persisted changelog has an entry for that version.
C30_SnapshotAllOrNothing ==
  snapLast.cmd = "snapshot"
    => \A v \in 1..MaxSnapVersion :
         v \in versionFiles
           <=> \E k \in DOMAIN changelogDisk.entries : changelogDisk.entries[k].version = v

\* C25: fetchWithRetry, as fetchRegistryItem calls it, calls fetch() at most
\* twice, makes no further call once a response came back, throws the last
\* error caught when both calls fail, and every call comes to an end.
C25_FetchBounded ==
  /\ fetchRun.attempts <= 2
  /\ fetchRun.waits <= 1
  /\ fetchRun.pc = "returned" => fetchRun.attempts = Len(fetchRun.errors) + 1
  /\ fetchRun.pc = "threw"
       => /\ Len(fetchRun.errors) = 2
          /\ fetchRun.attempts = 2
          /\ fetchRun.thrown = fetchRun.errors[2]

C25_AtMostTwoAttemptsAndTerminates ==
  /\ []C25_FetchBounded
  /\ [][fetchRun.status # 0 => fetchRun'.attempts = fetchRun.attempts]_vars
  /\ (fetchRun.pc = "loop") ~> (fetchRun.pc = "done")

C25_Witness ==
  /\ fetchRun.pc = "done"
  /\ fetchRun.attempts = 2
  /\ Len(fetchRun.errors) = 2
  /\ fetchRun.errors[1] # fetchRun.errors[2]
  /\ fetchRun.thrown = fetchRun.errors[2]

====
